---- MODULE Spec2Model ----
(***************************************************************************)
(* Model of sendTM.c (MOSES telemetry downlink test code): main() forks    *)
(* the fsynth helper, configures the SyncLink serial device, then sends a  *)
(* fixed queue of 14 files in BUFSIZ chunks, each followed by the "smart"  *)
(* delimiter, and finally drops RTS/DTR.                                   *)
(*                                                                         *)
(* One action per system/library call of main(); pc is main's position.    *)
(* The results of the OS primitives (fork, exec, open, ioctl, fopen,       *)
(* fread, write, tcdrain) are the environment's choice.  Variables after   *)
(* the line "device-side observations" are not program variables: they     *)
(* record what an instrumented device / libc would see.                    *)
(***************************************************************************)
EXTENDS Integers, Sequences, FiniteSets, TLC

VARIABLES
    pc,          \* position of the parent process in main()
    child,       \* the forked child: "none", "exec", "fsynth", "dead"
    helper,      \* how the helper ended: "none", "ok", "execfail", "badexit"
    fd,          \* device file descriptor (-1 = open failed, 0 = not yet opened)
    rc,          \* int rc
    rd,          \* int rd (result of the last fread)
    j,           \* queue loop index
    k,           \* chunk loop index
    itr,         \* int itr
    sz,          \* long sz
    imagename,   \* char *imagename
    totalSize,   \* int totalSize
    count,       \* int count
    fp,          \* FILE *fp: -1 = NULL, otherwise the handle of item fp
    databuf,     \* what databuf holds: [src, chunk, len]
    exitCode,    \* exit status of the parent (meaningful when pc = "exit")
    \* ---- device-side observations ----
    nonblock,    \* O_NONBLOCK file status flag of the open device handle
    fileLen,     \* actual length in bytes of the open source file
    fpos,        \* read position in the open source file
    openFiles,   \* set of FILE handles opened and not yet fclosed
    devOps,      \* configuration calls issued on the device, in order
    nAssert,     \* successful TIOCMBIS calls
    nDeassert,   \* successful TIOCMBIC calls
    pendingDrain,\* successful writes since the last tcdrain call
    nChunkWr,    \* chunk write calls issued for the current item
    wrBytes,     \* bytes accepted by the device from the current item's chunks
    nDelimWr,    \* delimiter write calls issued for the current item
    lastWr,      \* the data the device accepted in the last successful write
    failedSteps, \* names of the calls that reported failure so far
    slept,       \* the 2 second settle delay has run
    queueLen,    \* int imageAmount: the number of queue items the loop visits
    opened,      \* names of the sources fopen has opened so far, in order
    delimTotal,  \* delimiter write calls issued in the whole run
    nRead        \* bytes fread obtained from the current item's source

vars == <<pc, child, helper, fd, rc, rd, j, k, itr, sz, imagename, totalSize,
          count, fp, databuf, exitCode, nonblock, fileLen, fpos, openFiles,
          devOps, nAssert, nDeassert, pendingDrain, nChunkWr, wrBytes,
          nDelimWr, lastWr, failedSteps, slept, queueLen, opened,
          delimTotal, nRead>>

progVars == <<rd, j, k, itr, sz, imagename, totalSize, count, fp, databuf>>
fileVars == <<fileLen, fpos, openFiles>>
lineVars == <<nAssert, nDeassert>>
wrVars   == <<pendingDrain, nChunkWr, wrBytes, nDelimWr, lastWr>>
histVars == <<queueLen, opened, delimTotal, nRead>>

----------------------------------------------------------------------------
(* Program constants *)

BUFSIZ == 4096

imageAmount == 14

ImageSz == 16777200

XmlSz == 28165

EndbufLen == 5

EXIT_FAILURE == 1

images == <<"image0", "image1", "image2", "image3", "image4", "image5", "image6">>

xmlfile == "xml"

(* Bound of the environment: a source file on disk may be up to this many  *)
(* whole chunks shorter than the size main() declares for it.              *)
MaxMissing == 1

----------------------------------------------------------------------------
(* Pure helpers *)

Min(a, b) == IF a < b THEN a ELSE b

(* itr = (int)((sz + (0.5*BUFSIZ)) / (BUFSIZ)): round to nearest *)
Itr(s) == (2 * s + BUFSIZ) \div (2 * BUFSIZ)

(* exit status seen by the parent of this process: low 8 bits of the       *)
(* value returned from main                                                *)
ExitStatus(r) == r % 256

(* lengths the file of declared size s may really have *)
FileLens(s) == {s - m * BUFSIZ : m \in 0..MaxMissing} \cup {Itr(s) * BUFSIZ}

NoWrite == [kind |-> "none", src |-> -1, chunk |-> -1, len |-> 0, idx |-> -1]

----------------------------------------------------------------------------
Init ==
    /\ pc = "fork"
    /\ child = "none"
    /\ helper = "none"
    /\ fd = 0
    /\ rc = 0
    /\ rd = 0
    /\ j = 0
    /\ k = 0
    /\ itr = 0
    /\ sz = 0
    /\ imagename = ""
    /\ totalSize = 0
    /\ count = 0
    /\ fp = -1
    /\ databuf = [src |-> -1, chunk |-> -1, len |-> 0]
    /\ exitCode = 0
    /\ nonblock = FALSE
    /\ fileLen = 0
    /\ fpos = 0
    /\ openFiles = {}
    /\ devOps = <<>>
    /\ nAssert = 0
    /\ nDeassert = 0
    /\ pendingDrain = 0
    /\ nChunkWr = 0
    /\ wrBytes = 0
    /\ nDelimWr = 0
    /\ lastWr = NoWrite
    /\ failedSteps = {}
    /\ slept = FALSE
    /\ queueLen = imageAmount
    /\ opened = <<>>
    /\ delimTotal = 0
    /\ nRead = 0

(* return r from main / exit(r) *)
Return(r) ==
    /\ pc' = "exit"
    /\ exitCode' = ExitStatus(r)

----------------------------------------------------------------------------
(* Clock source bootstrap: fork / execlp("fsynth") / wait *)

(* pid_t pid = fork(); pid == -1 -> exit(EXIT_FAILURE) *)
Fork ==
    /\ pc = "fork"
    /\ \/ /\ child' = "exec"
          /\ pc' = "wait"
          /\ UNCHANGED <<exitCode, failedSteps>>
       \/ /\ failedSteps' = failedSteps \cup {"fork"}
          /\ Return(EXIT_FAILURE)
          /\ UNCHANGED child
    /\ UNCHANGED <<helper, fd, rc, nonblock, devOps, slept>>
    /\ UNCHANGED <<progVars, fileVars, lineVars, wrVars>>
    /\ UNCHANGED histVars

(* child: execlp("fsynth", ...); on return perror and _exit(EXIT_FAILURE) *)
ChildExec ==
    /\ child = "exec"
    /\ \/ /\ child' = "fsynth"
          /\ UNCHANGED helper
       \/ /\ child' = "dead"
          /\ helper' = "execfail"
    /\ UNCHANGED <<pc, fd, rc, exitCode, nonblock, devOps, failedSteps, slept>>
    /\ UNCHANGED <<progVars, fileVars, lineVars, wrVars>>
    /\ UNCHANGED histVars

(* the helper program runs and exits with a success or a failure status *)
ChildRun ==
    /\ child = "fsynth"
    /\ child' = "dead"
    /\ \E st \in {"ok", "badexit"} : helper' = st
    /\ UNCHANGED <<pc, fd, rc, exitCode, nonblock, devOps, failedSteps, slept>>
    /\ UNCHANGED <<progVars, fileVars, lineVars, wrVars>>
    /\ UNCHANGED histVars

(* parent: wait(); the child's status is not collected *)
Wait ==
    /\ pc = "wait"
    /\ child = "dead"
    /\ pc' = "open"
    /\ UNCHANGED <<child, helper, fd, rc, exitCode, nonblock, devOps,
                   failedSteps, slept>>
    /\ UNCHANGED <<progVars, fileVars, lineVars, wrVars>>
    /\ UNCHANGED histVars

----------------------------------------------------------------------------
(* Link configuration *)

(* an open whose result is not tested: main goes on with fd = -1 *)
OpenUnchecked ==
    /\ pc = "open"
    /\ devOps' = Append(devOps, "open")
    /\ \/ /\ fd' = 3
          /\ nonblock' = TRUE
          /\ UNCHANGED failedSteps
       \/ /\ fd' = -1
          /\ failedSteps' = failedSteps \cup {"open"}
          /\ UNCHANGED nonblock
    /\ pc' = "setd"
    /\ UNCHANGED <<child, helper, rc, slept, exitCode>>
    /\ UNCHANGED <<progVars, fileVars, lineVars, wrVars, histVars>>

(* fd = open(devname, O_RDWR | O_NONBLOCK, 0); fd < 0 -> return fd *)
Open ==
    /\ pc = "open"
    /\ devOps' = Append(devOps, "open")
    /\ \/ /\ fd' = 3
          /\ nonblock' = TRUE
          /\ pc' = "setd"
          /\ UNCHANGED <<exitCode, failedSteps>>
       \/ /\ fd' = -1
          /\ failedSteps' = failedSteps \cup {"open"}
          /\ Return(-1)
          /\ UNCHANGED nonblock
    /\ UNCHANGED <<child, helper, rc, slept>>
    /\ UNCHANGED <<progVars, fileVars, lineVars, wrVars>>
    /\ UNCHANGED histVars

(* rc = ioctl(fd, op, ...); if (rc < 0) return rc; -- the checked ioctls   *)
(* of the configuration sequence that change no modelled device state      *)
CheckedIoctl(here, op, next) ==
    /\ pc = here
    /\ devOps' = Append(devOps, op)
    /\ \E r \in {0, -1} :
        /\ rc' = r
        /\ IF r < 0
             THEN /\ failedSteps' = failedSteps \cup {op}
                  /\ Return(r)
             ELSE /\ pc' = next
                  /\ UNCHANGED <<exitCode, failedSteps>>
    /\ UNCHANGED <<child, helper, fd, nonblock, slept>>
    /\ UNCHANGED <<progVars, fileVars, lineVars, wrVars>>
    /\ UNCHANGED histVars

SetLdisc == CheckedIoctl("setd", "TIOCSETD", "getparams")

GetParams == CheckedIoctl("getparams", "MGSL_IOCGPARAMS", "setparams")

SetParams == CheckedIoctl("setparams", "MGSL_IOCSPARAMS", "txidle")

SetTxIdle == CheckedIoctl("txidle", "MGSL_IOCSTXIDLE", "getfl")

(* int blk = fcntl(fd, F_GETFL); blk = (blk | O_NONBLOCK);                 *)
(* the flags are read into a local; no F_SETFL is issued                   *)
GetFl ==
    /\ pc = "getfl"
    /\ devOps' = Append(devOps, "F_GETFL")
    /\ pc' = "assert"
    /\ UNCHANGED <<child, helper, fd, rc, exitCode, nonblock, failedSteps, slept>>
    /\ UNCHANGED <<progVars, fileVars, lineVars, wrVars>>
    /\ UNCHANGED histVars

(* rc = ioctl(fd, TIOCMBIS, &sigs); if (rc < 0) return rc; *)
AssertLines ==
    /\ pc = "assert"
    /\ devOps' = Append(devOps, "TIOCMBIS")
    /\ \E r \in {0, -1} :
        /\ rc' = r
        /\ IF r < 0
             THEN /\ failedSteps' = failedSteps \cup {"TIOCMBIS"}
                  /\ Return(r)
                  /\ UNCHANGED nAssert
             ELSE /\ nAssert' = nAssert + 1
                  /\ pc' = "txenable"
                  /\ UNCHANGED <<exitCode, failedSteps>>
    /\ UNCHANGED <<child, helper, fd, nonblock, slept, nDeassert>>
    /\ UNCHANGED <<progVars, fileVars, wrVars>>
    /\ UNCHANGED histVars

(* rc = ioctl(fd, MGSL_IOCTXENABLE, enable); rc is not tested *)
TxEnable ==
    /\ pc = "txenable"
    /\ devOps' = Append(devOps, "MGSL_IOCTXENABLE")
    /\ \E r \in {0, -1} :
        /\ rc' = r
        /\ failedSteps' = IF r < 0 THEN failedSteps \cup {"MGSL_IOCTXENABLE"}
                                   ELSE failedSteps
    /\ pc' = "loop"
    /\ UNCHANGED <<child, helper, fd, exitCode, nonblock, slept>>
    /\ UNCHANGED <<progVars, fileVars, lineVars, wrVars>>
    /\ UNCHANGED histVars

----------------------------------------------------------------------------
(* Transfer queue loop *)

cfgVars == <<child, helper, fd, nonblock, devOps, slept>>

(* a queue loop that tests its bound only after the body (do ... while) *)
LoopHeadDoWhile ==
    /\ pc = "loop"
    /\ IF j < queueLen \/ j = 0
         THEN /\ count' = 0
              /\ totalSize' = 0
              /\ sz' = IF j % 2 = 0 THEN ImageSz ELSE XmlSz
              /\ imagename' = IF j % 2 = 0 THEN images[(j \div 2) + 1] ELSE xmlfile
              /\ nChunkWr' = 0
              /\ wrBytes' = 0
              /\ nDelimWr' = 0
              /\ nRead' = 0
              /\ pc' = "fopen"
         ELSE /\ pc' = "sleep"
              /\ UNCHANGED <<count, totalSize, sz, imagename, nChunkWr,
                             wrBytes, nDelimWr, nRead>>
    /\ UNCHANGED <<queueLen, opened, delimTotal>>
    /\ UNCHANGED <<rc, rd, j, k, itr, fp, databuf, exitCode, failedSteps,
                   pendingDrain, lastWr>>
    /\ UNCHANGED <<child, helper, fd, nonblock, devOps, slept>>
    /\ UNCHANGED <<fileVars, lineVars>>

(* the loop index used as the array index without halving it *)
ImageIndexNoHalve(jj) == jj

(* the index into images[] that loop index jj uses: images[j / 2] *)
ImageIndex(jj) == jj \div 2

(* the parity test the wrong way round: the xml file first, images on odd  *)
(* passes                                                                  *)
ItemNameOddImage(jj) ==
    IF jj % 2 = 1
      THEN IF ImageIndex(jj) + 1 \in DOMAIN images
             THEN images[ImageIndex(jj) + 1]
             ELSE "out-of-bounds"
      ELSE xmlfile

(* imagename for loop index jj: images[j / 2] on an even pass, xmlfile on  *)
(* an odd one.  images is 1-based here; an index outside the array reads   *)
(* whatever pointer lies there.                                            *)
ItemName(jj) ==
    IF jj % 2 = 0
      THEN IF ImageIndex(jj) + 1 \in DOMAIN images
             THEN images[ImageIndex(jj) + 1]
             ELSE "out-of-bounds"
      ELSE xmlfile

(* sz for loop index jj *)
ItemSz(jj) == IF jj % 2 = 0 THEN ImageSz ELSE XmlSz

(* for (j = 0; j < imageAmount; ...): loop test and selection of the item *)
LoopHead ==
    /\ pc = "loop"
    /\ IF j < queueLen
         THEN /\ count' = 0
              /\ totalSize' = 0
              /\ sz' = ItemSz(j)
              /\ imagename' = ItemName(j)
              /\ nChunkWr' = 0
              /\ wrBytes' = 0
              /\ nDelimWr' = 0
              /\ nRead' = 0
              /\ pc' = "fopen"
         ELSE /\ pc' = "sleep"
              /\ UNCHANGED <<count, totalSize, sz, imagename, nChunkWr,
                             wrBytes, nDelimWr, nRead>>
    /\ UNCHANGED <<queueLen, opened, delimTotal>>
    /\ UNCHANGED <<rc, rd, j, k, itr, fp, databuf, exitCode, failedSteps,
                   pendingDrain, lastWr>>
    /\ UNCHANGED <<cfgVars, fileVars, lineVars>>

(* fp = fopen(imagename, "r"); NULL -> return 1; then itr is computed *)
Fopen ==
    /\ pc = "fopen"
    /\ \/ /\ fp' = j
          /\ openFiles' = openFiles \cup {j}
          /\ \E len \in FileLens(sz) : fileLen' = len
          /\ fpos' = 0
          /\ itr' = Itr(sz)
          /\ k' = 0
          /\ pc' = "read"
          /\ opened' = Append(opened, imagename)
          /\ UNCHANGED <<exitCode, failedSteps>>
       \/ /\ fp' = -1
          /\ failedSteps' = failedSteps \cup {"fopen"}
          /\ Return(1)
          /\ UNCHANGED <<openFiles, fileLen, fpos, itr, k, opened>>
    /\ UNCHANGED <<queueLen, delimTotal, nRead>>
    /\ UNCHANGED <<rc, rd, j, sz, imagename, totalSize, count, databuf>>
    /\ UNCHANGED <<cfgVars, lineVars, wrVars>>

(* what databuf holds after an fread that delivered n bytes of the chunk   *)
(* at file offset pos of item src: a full chunk replaces the buffer, a     *)
(* short one replaces its first n bytes, an empty one leaves it as it was  *)
BufAfterRead(buf, src, pos, n) ==
    IF n = 0 THEN buf
             ELSE [src |-> src, chunk |-> pos \div BUFSIZ, len |-> n]

(* for (k = 0; k < itr; k++) rd = fread(databuf, sizeof(char), BUFSIZ, fp) *)
Fread ==
    /\ pc = "read"
    /\ k < itr
    /\ rd' = Min(BUFSIZ, fileLen - fpos)
    /\ databuf' = BufAfterRead(databuf, fp, fpos, rd')
    /\ fpos' = fpos + rd'
    /\ nRead' = nRead + rd'
    /\ k' = k + 1
    /\ UNCHANGED <<queueLen, opened, delimTotal>>
    /\ UNCHANGED <<pc, rc, j, itr, sz, imagename, totalSize, count, fp,
                   exitCode, failedSteps, fileLen, openFiles>>
    /\ UNCHANGED <<cfgVars, lineVars, wrVars>>

(* end of the read loop; gettimeofday(&time_begin); k = 0 *)
ReadDone ==
    /\ pc = "read"
    /\ k >= itr
    /\ k' = 0
    /\ pc' = "write"
    /\ UNCHANGED <<rc, rd, j, itr, sz, imagename, totalSize, count, fp,
                   databuf, exitCode, failedSteps>>
    /\ UNCHANGED <<cfgVars, fileVars, lineVars, wrVars>>
    /\ UNCHANGED histVars

(* the record of a write that handed n bytes of buf to the device as the   *)
(* idx-th chunk of the current item                                        *)
ChunkData(buf, n, idx) ==
    [kind |-> "chunk", src |-> buf.src, chunk |-> buf.chunk,
     len |-> Min(buf.len, n), idx |-> idx]

(* a chunk loop that issues the next write without draining the last one *)
AfterChunkWriteNoDrain == "write"

(* where the chunk loop continues after a write that succeeded *)
AfterChunkWrite == "drain"

(* rc = write(fd, databuf, BUFSIZ); rc < 0 -> break; totalSize += rc *)
ChunkWrite ==
    /\ pc = "write"
    /\ k < itr
    /\ nChunkWr' = nChunkWr + 1
    /\ \E r \in {BUFSIZ, -1} :
        /\ rc' = r
        /\ IF r < 0
             THEN /\ failedSteps' = failedSteps \cup {"write"}
                  /\ pc' = "check"
                  /\ UNCHANGED <<totalSize, pendingDrain, wrBytes, lastWr>>
             ELSE /\ totalSize' = totalSize + r
                  /\ wrBytes' = wrBytes + r
                  /\ lastWr' = ChunkData(databuf, r, k)
                  /\ pendingDrain' = pendingDrain + 1
                  /\ pc' = AfterChunkWrite
                  /\ UNCHANGED failedSteps
    /\ UNCHANGED <<rd, j, k, itr, sz, imagename, count, fp, databuf,
                   exitCode, nDelimWr>>
    /\ UNCHANGED <<cfgVars, fileVars, lineVars>>
    /\ UNCHANGED histVars

(* a chunk loop that writes the same chunk again after a failed drain *)
AfterChunkDrainFailureRetry == "write"

(* where main continues when the drain of a chunk fails: the break leaves  *)
(* the chunk loop for the rc test behind it                                *)
AfterChunkDrainFailure == "check"

(* rc = tcdrain(fd); rc < 0 -> break; count++; k++ *)
ChunkDrain ==
    /\ pc = "drain"
    /\ pendingDrain' = 0
    /\ \E r \in {0, -1} :
        /\ rc' = r
        /\ IF r < 0
             THEN /\ failedSteps' = failedSteps \cup {"tcdrain"}
                  /\ pc' = AfterChunkDrainFailure
                  /\ UNCHANGED <<count, k>>
             ELSE /\ count' = count + 1
                  /\ k' = k + 1
                  /\ pc' = "write"
                  /\ UNCHANGED failedSteps
    /\ UNCHANGED <<rd, j, itr, sz, imagename, totalSize, fp, databuf,
                   exitCode, nChunkWr, wrBytes, nDelimWr, lastWr>>
    /\ UNCHANGED <<cfgVars, fileVars, lineVars>>
    /\ UNCHANGED histVars

(* the chunk loop ends because k reached itr *)
WriteDone ==
    /\ pc = "write"
    /\ k >= itr
    /\ pc' = "check"
    /\ UNCHANGED <<rc, exitCode, failedSteps>>
    /\ UNCHANGED <<progVars, cfgVars, fileVars, lineVars, wrVars>>
    /\ UNCHANGED histVars

(* if (rc < 0) return rc; after the chunk loop *)
CheckRc ==
    /\ pc = "check"
    /\ IF rc < 0
         THEN Return(rc)
         ELSE /\ pc' = "fclose"
              /\ UNCHANGED exitCode
    /\ UNCHANGED <<rc, failedSteps>>
    /\ UNCHANGED <<progVars, cfgVars, fileVars, lineVars, wrVars>>
    /\ UNCHANGED histVars

(* an item that is never closed: the fclose is left out *)
FcloseMissing ==
    /\ pc = "fclose"
    /\ pc' = "endwrite"
    /\ UNCHANGED <<rc, exitCode, failedSteps>>
    /\ UNCHANGED <<child, helper, fd, nonblock, devOps, slept>>
    /\ UNCHANGED <<progVars, fileVars, lineVars, wrVars, histVars>>

(* fclose(fp) *)
Fclose ==
    /\ pc = "fclose"
    /\ openFiles' = openFiles \ {fp}
    /\ fileLen' = 0
    /\ fpos' = 0
    /\ pc' = "endwrite"
    /\ UNCHANGED <<rc, exitCode, failedSteps>>
    /\ UNCHANGED <<progVars, cfgVars, lineVars, wrVars>>
    /\ UNCHANGED histVars

(* a queue loop that goes on to the next item after a failed delimiter    *)
(* write                                                                   *)
AfterEndWriteFailureContinue == "timing"

(* where main continues when the delimiter write fails: the break leaves   *)
(* the queue loop                                                          *)
AfterEndWriteFailure == "sleep"

(* rc = write(fd, endbuf, 5); rc < 0 -> break out of the queue loop *)
EndWrite ==
    /\ pc = "endwrite"
    /\ nDelimWr' = nDelimWr + 1
    /\ delimTotal' = delimTotal + 1
    /\ UNCHANGED <<queueLen, opened, nRead>>
    /\ \E r \in {EndbufLen, -1} :
        /\ rc' = r
        /\ IF r < 0
             THEN /\ failedSteps' = failedSteps \cup {"endwrite"}
                  /\ pc' = AfterEndWriteFailure
                  /\ UNCHANGED <<pendingDrain, lastWr>>
             ELSE /\ pendingDrain' = pendingDrain + 1
                  /\ lastWr' = [kind |-> "delim", src |-> j, chunk |-> -1,
                                len |-> r, idx |-> -1]
                  /\ pc' = "enddrain"
                  /\ UNCHANGED failedSteps
    /\ UNCHANGED <<exitCode, nChunkWr, wrBytes>>
    /\ UNCHANGED <<progVars, cfgVars, fileVars, lineVars>>

(* rc = tcdrain(fd); rc < 0 -> break out of the queue loop *)
EndDrain ==
    /\ pc = "enddrain"
    /\ pendingDrain' = 0
    /\ \E r \in {0, -1} :
        /\ rc' = r
        /\ IF r < 0
             THEN /\ failedSteps' = failedSteps \cup {"endtcdrain"}
                  /\ pc' = "sleep"
             ELSE /\ pc' = "timing"
                  /\ UNCHANGED failedSteps
    /\ UNCHANGED <<exitCode, nChunkWr, wrBytes, nDelimWr, lastWr>>
    /\ UNCHANGED <<progVars, cfgVars, fileVars, lineVars>>
    /\ UNCHANGED histVars

(* a loop pass that does not advance the queue index *)
TimingNoAdvance ==
    /\ pc = "timing"
    /\ pc' = "loop"
    /\ UNCHANGED <<rc, exitCode, failedSteps>>
    /\ UNCHANGED <<child, helper, fd, nonblock, devOps, slept>>
    /\ UNCHANGED <<progVars, fileVars, lineVars, wrVars, histVars>>

(* gettimeofday(&time_end), the report, and the loop's j++ *)
Timing ==
    /\ pc = "timing"
    /\ j' = j + 1
    /\ pc' = "loop"
    /\ UNCHANGED <<rc, rd, k, itr, sz, imagename, totalSize, count, fp,
                   databuf, exitCode, failedSteps>>
    /\ UNCHANGED <<cfgVars, fileVars, lineVars, wrVars>>
    /\ UNCHANGED histVars

----------------------------------------------------------------------------
(* Session end *)

(* a session end without the settle delay *)
SleepSkipped ==
    /\ pc = "sleep"
    /\ pc' = "deassert"
    /\ UNCHANGED <<child, helper, fd, nonblock, devOps, slept, rc, exitCode,
                   failedSteps>>
    /\ UNCHANGED <<progVars, fileVars, lineVars, wrVars, histVars>>

(* sleep(2) *)
Sleep ==
    /\ pc = "sleep"
    /\ slept' = TRUE
    /\ pc' = "deassert"
    /\ UNCHANGED <<child, helper, fd, nonblock, devOps, rc, exitCode, failedSteps>>
    /\ UNCHANGED <<progVars, fileVars, lineVars, wrVars>>
    /\ UNCHANGED histVars

(* rc = ioctl(fd, TIOCMBIC, &sigs); if (rc < 0) return rc; *)
DeassertLines ==
    /\ pc = "deassert"
    /\ devOps' = Append(devOps, "TIOCMBIC")
    /\ \E r \in {0, -1} :
        /\ rc' = r
        /\ IF r < 0
             THEN /\ failedSteps' = failedSteps \cup {"TIOCMBIC"}
                  /\ Return(r)
                  /\ UNCHANGED nDeassert
             ELSE /\ nDeassert' = nDeassert + 1
                  /\ pc' = "close"
                  /\ UNCHANGED <<exitCode, failedSteps>>
    /\ UNCHANGED <<child, helper, fd, nonblock, slept, nAssert>>
    /\ UNCHANGED <<progVars, fileVars, wrVars>>
    /\ UNCHANGED histVars

(* close(fd); return 0; *)
Close ==
    /\ pc = "close"
    /\ devOps' = Append(devOps, "close")
    /\ Return(0)
    /\ UNCHANGED <<child, helper, fd, nonblock, rc, failedSteps, slept>>
    /\ UNCHANGED <<progVars, fileVars, lineVars, wrVars>>
    /\ UNCHANGED histVars

----------------------------------------------------------------------------
Next ==
    \/ Fork \/ ChildExec \/ ChildRun \/ Wait
    \/ Open \/ SetLdisc \/ GetParams \/ SetParams \/ SetTxIdle \/ GetFl
    \/ AssertLines \/ TxEnable
    \/ LoopHead \/ Fopen \/ Fread \/ ReadDone
    \/ ChunkWrite \/ ChunkDrain \/ WriteDone \/ CheckRc \/ Fclose
    \/ EndWrite \/ EndDrain \/ Timing
    \/ Sleep \/ DeassertLines \/ Close

Spec == Init /\ [][Next]_vars

(* main with its local imageAmount initialised either as shipped or to 0:  *)
(* the queue loop, the settle delay and the session end are written for    *)
(* any item count, and the empty queue is the case the shipped             *)
(* initialiser never produces.                                             *)
QueueLens == {0, imageAmount}

InitAnyQueue ==
    /\ queueLen \in QueueLens
    /\ pc = "fork" /\ child = "none" /\ helper = "none"
    /\ fd = 0 /\ rc = 0 /\ rd = 0 /\ j = 0 /\ k = 0 /\ itr = 0 /\ sz = 0
    /\ imagename = "" /\ totalSize = 0 /\ count = 0 /\ fp = -1
    /\ databuf = [src |-> -1, chunk |-> -1, len |-> 0]
    /\ exitCode = 0 /\ nonblock = FALSE
    /\ fileLen = 0 /\ fpos = 0 /\ openFiles = {}
    /\ devOps = <<>> /\ nAssert = 0 /\ nDeassert = 0
    /\ pendingDrain = 0 /\ nChunkWr = 0 /\ wrBytes = 0 /\ nDelimWr = 0
    /\ lastWr = NoWrite /\ failedSteps = {} /\ slept = FALSE
    /\ opened = <<>> /\ delimTotal = 0 /\ nRead = 0

SpecAnyQueue == InitAnyQueue /\ [][Next]_vars

----------------------------------------------------------------------------
(* Properties *)

(* number of times the configuration call op was issued on the device *)
NumOps(op) == Cardinality({i \in DOMAIN devOps : devOps[i] = op})

IsPrefix(s, t) == Len(s) <= Len(t) /\ \A i \in 1..Len(s) : s[i] = t[i]

(* smallest n with n * c >= l *)
CeilDiv(l, c) == (l + c - 1) \div c

(* the configuration order of the ordering contract *)
ConfigOrder == <<"open", "TIOCSETD", "MGSL_IOCGPARAMS", "MGSL_IOCSPARAMS",
                 "MGSL_IOCSTXIDLE", "F_SETFL", "TIOCMBIS", "MGSL_IOCTXENABLE">>

ConfigSteps == {ConfigOrder[i] : i \in DOMAIN ConfigOrder}

HelperFailed == helper \in {"execfail", "badexit"}

(* an fopen of a queue item has been attempted *)
ItemOpened == fp # -1 \/ "fopen" \in failedSteps

(* C1: in a run that asserted RTS/DTR, at process exit the lines have been *)
(* asserted exactly once and a TIOCMBIC deassert has been issued exactly   *)
(* once, whatever path led to the exit.                                    *)
C1_AssertDeassertSymmetric ==
    (pc = "exit" /\ nAssert >= 1) => (nAssert = 1 /\ NumOps("TIOCMBIC") = 1)

(* C2: when an item completes with no write or drain failure, exactly      *)
(* ceil(sz/BUFSIZ) chunk writes were issued, their sizes sum to exactly    *)
(* sz, and exactly one delimiter write followed.                           *)
C2_ChunkCountAndSum ==
    pc = "timing" =>
        /\ nChunkWr = CeilDiv(sz, BUFSIZ)
        /\ wrBytes = sz
        /\ nDelimWr = 1

(* C3: the k-th chunk write of item j hands the device chunk k of item     *)
(* j's source file.                                                        *)
C3_ChunksInFileOrder ==
    lastWr.kind = "chunk" => (lastWr.src = j /\ lastWr.chunk = lastWr.idx)

(* C4: at most one successful write is awaiting a drain, and whenever one  *)
(* is, the very next call of main is the tcdrain that follows it.          *)
C4_DrainAfterEveryWrite ==
    /\ pendingDrain <= 1
    /\ pendingDrain = 1 => pc \in {"drain", "enddrain"}

(* C4 witness: all chunks of an item were written and drained one by one   *)
(* and the delimiter write is now awaiting its drain.                      *)
C4_Witness ==
    /\ pc = "enddrain"
    /\ pendingDrain = 1
    /\ nChunkWr = itr
    /\ count = itr
    /\ itr >= 2

(* C5: the process exits 0 only if no call reported failure.               *)
C5_ExitZeroOnlyOnSuccess ==
    (pc = "exit" /\ failedSteps # {}) => exitCode # 0

(* C6: the configuration calls issued on the device form a prefix of the   *)
(* contract's order (open, discipline, get params, set params, idle        *)
(* pattern, switch to blocking, assert lines, enable transmitter), and no  *)
(* data is written before all eight were issued.                           *)
C6_ConfigOrder ==
    /\ IsPrefix(SubSeq(devOps, 1, Min(Len(devOps), Len(ConfigOrder))), ConfigOrder)
    /\ lastWr # NoWrite => Len(devOps) >= Len(ConfigOrder)

(* C7: once a configuration step has failed no queue item is opened and    *)
(* nothing is written to the device, and if the lines were asserted they   *)
(* are deasserted before the process exits.                                *)
C7_ConfigFailureAborts ==
    (failedSteps \cap ConfigSteps # {}) =>
        /\ ~ItemOpened
        /\ lastWr = NoWrite
        /\ (pc = "exit" /\ nAssert >= 1) => NumOps("TIOCMBIC") >= 1

(* C8: if the fsynth helper failed (exec failure or non-success exit) the  *)
(* parent issues no call on the serial device and exits non-zero.          *)
C8_HelperFailureFatal ==
    HelperFailed =>
        /\ devOps = <<>>
        /\ pc = "exit" => exitCode # 0

(* C9: whenever main is about to write to or drain the device, the         *)
(* handle's O_NONBLOCK flag is clear.                                      *)
C9_BlockingAtWrites ==
    pc \in {"write", "drain", "endwrite", "enddrain"} => ~nonblock

(* C10: at process exit every source file that was opened has been closed. *)
C10_SourceClosedOnExit ==
    pc = "exit" => openFiles = {}

(* a tcdrain reported failure, after a chunk or after the delimiter *)
DrainFailed == "tcdrain" \in failedSteps \/ "endtcdrain" \in failedSteps

(* positions of main from which no write can be issued any more *)
NoWritePcs == {"check", "sleep", "deassert", "close", "exit"}

(* ---- a measure of the work main and the child still have ahead ----     *)

(* an upper bound on the steps one queue item takes: itr reads, itr writes *)
(* and itr drains of the largest item, and the calls around them           *)
MaxItemSteps == 3 * Itr(ImageSz) + 10

(* steps left in the current item from position p with chunk index kk *)
ItemRank(p, kk) ==
    CASE p = "fopen"    -> MaxItemSteps - 1
      [] p = "read"     -> MaxItemSteps - 2 - kk
      [] p = "write"    -> MaxItemSteps - 3 - itr - 2 * kk
      [] p = "drain"    -> MaxItemSteps - 4 - itr - 2 * kk
      [] p = "check"    -> 5
      [] p = "fclose"   -> 4
      [] p = "endwrite" -> 3
      [] p = "enddrain" -> 2
      [] p = "timing"   -> 1

(* steps left to the child *)
ChildRank == CASE child = "exec" -> 2 [] child = "fsynth" -> 1 [] OTHER -> 0

ConfigPcs == <<"txenable", "assert", "getfl", "txidle", "setparams",
               "getparams", "setd", "open", "wait", "fork">>

(* steps left when the queue loop is over *)
TailRank(p) ==
    CASE p = "exit" -> 0 [] p = "close" -> 1 [] p = "deassert" -> 2
      [] p = "sleep" -> 3

(* a natural number that bounds the steps the run can still take *)
Rank ==
    IF pc \in {"exit", "close", "deassert", "sleep"}
      THEN TailRank(pc)
    ELSE IF pc = "loop"
      THEN 4 + (IF j < queueLen THEN (queueLen - j) * MaxItemSteps ELSE 0)
    ELSE IF \E i \in DOMAIN ConfigPcs : ConfigPcs[i] = pc
      THEN 4 + queueLen * MaxItemSteps + ChildRank
             + 3 * (CHOOSE i \in DOMAIN ConfigPcs : ConfigPcs[i] = pc)
    ELSE 4 + (queueLen - j - 1) * MaxItemSteps + ItemRank(pc, k)

(* C11: once a tcdrain has reported failure main is at a position from     *)
(* which no write is issued (the failed chunk is the last one written, no  *)
(* delimiter follows a failed chunk drain, no second delimiter follows a   *)
(* failed delimiter drain), and the run goes on to process exit: it is     *)
(* never blocked before the exit and every step brings the exit nearer.    *)
C11_DrainFailureStopsWrites ==
    /\ [](DrainFailed =>
            /\ pc \in NoWritePcs
            /\ nChunkWr = k + 1 \/ nChunkWr = itr
            /\ "tcdrain" \in failedSteps => nDelimWr = 0
            /\ "endtcdrain" \in failedSteps => nDelimWr = 1
            /\ pc # "exit" => ENABLED Next)
    /\ [][DrainFailed => (Rank' < Rank /\ Rank' >= 0)]_vars

(* C11 witness: the run has exited after a chunk drain failed in the       *)
(* middle of an item.                                                      *)
C11_Witness ==
    /\ pc = "exit"
    /\ "tcdrain" \in failedSteps
    /\ k >= 1
    /\ nChunkWr = k + 1

(* a write to the device reported failure, a chunk's or the delimiter's *)
WriteFailed == "write" \in failedSteps \/ "endwrite" \in failedSteps

(* C12: once a write to the device has failed, no step of the run opens a  *)
(* source or issues another write: the set of sources opened and the       *)
(* counts of chunk and delimiter writes never change again.                *)
C12_WriteFailureAbortsRun ==
    [][WriteFailed =>
         /\ opened' = opened
         /\ fp' = fp
         /\ nChunkWr' = nChunkWr
         /\ nDelimWr' = nDelimWr
         /\ delimTotal' = delimTotal
         /\ lastWr' = lastWr
         /\ pc' \in NoWritePcs]_vars

(* C12 witness: the delimiter write of the first item failed with later    *)
(* items still queued, and the run has ended.                              *)
C12_Witness ==
    /\ pc = "exit"
    /\ "endwrite" \in failedSteps
    /\ j = 0
    /\ j + 1 < queueLen
    /\ Len(opened) = 1

(* C13: if open of the device failed, main has exited with a non-zero      *)
(* status and the failed open is the only call ever issued on the device:  *)
(* no ioctl, no assert or deassert of the lines, no write.                 *)
C13_OpenFailureExits ==
    "open" \in failedSteps =>
        /\ pc = "exit"
        /\ exitCode # 0
        /\ devOps = <<"open">>
        /\ nAssert = 0
        /\ nDeassert = 0
        /\ nChunkWr = 0
        /\ delimTotal = 0
        /\ lastWr = NoWrite
        /\ opened = <<>>

(* C13 witness: the helper ran, open returned -1, main has exited. *)
C13_Witness ==
    /\ "open" \in failedSteps
    /\ fd = -1
    /\ child = "dead"
    /\ pc = "exit"

(* the calls main issues on the device in a session that sends nothing *)
EmptySessionOps ==
    <<"open", "TIOCSETD", "MGSL_IOCGPARAMS", "MGSL_IOCSPARAMS",
      "MGSL_IOCSTXIDLE", "F_GETFL", "TIOCMBIS", "MGSL_IOCTXENABLE",
      "TIOCMBIC", "close">>

QueueOrder ==
    <<"image0", "xml", "image1", "xml", "image2", "xml", "image3", "xml",
      "image4", "xml", "image5", "xml", "image6", "xml">>

(* C15: the sources opened so far are always the first items of the queue  *)
(* in queue order, one open per item; an item is opened only when every    *)
(* item before it has had its one delimiter write; and a run in which no   *)
(* call failed ends with the whole queue opened and as many delimiter      *)
(* writes as the queue has items.                                          *)
C15_QueueConsumedInOrder ==
    /\ IsPrefix(opened, QueueOrder)
    /\ Len(opened) \in {j, j + 1}
    /\ pc \in {"fopen", "read", "write", "drain", "check", "fclose"}
          => delimTotal = j
    /\ pc = "timing" => (delimTotal = j + 1 /\ nDelimWr = 1)
    /\ (pc = "exit" /\ failedSteps = {}) =>
          /\ opened = QueueOrder
          /\ delimTotal = Len(QueueOrder)

(* C15 witness: the third item (image1) has been opened after image0 and   *)
(* the xml file were each sent and delimited.                              *)
C15_Witness ==
    /\ pc = "read"
    /\ j = 2
    /\ opened = <<"image0", "xml", "image1">>
    /\ delimTotal = 2
    /\ failedSteps = {}

(* C16: at most one source file is open at any time, and main is about to  *)
(* open a source only when none is open.                                   *)
C16_OneSourceOpen ==
    /\ Cardinality(openFiles) <= 1
    /\ pc = "fopen" => openFiles = {}

(* C16 witness: the second item's source is open, the first one's having   *)
(* been closed.                                                            *)
C16_Witness ==
    /\ pc = "read"
    /\ j = 1
    /\ openFiles = {1}

(* C17: an item whose source delivered fewer bytes than its declared size  *)
(* is not reported as sent: main reaches the report of a completed item    *)
(* only if the reads obtained at least sz bytes.                           *)
C17_ShortSourceNotReported ==
    pc = "timing" => nRead >= sz

(* C18: the control lines are deasserted only after the settle delay has   *)
(* run, the delay runs only when no write is awaiting its drain, and once  *)
(* it has run main is past every write: no step issues one.                *)
C18_SettleBeforeDeassert ==
    /\ [](NumOps("TIOCMBIC") >= 1 => slept)
    /\ [](pc = "sleep" => pendingDrain = 0)
    /\ [](slept => pc \in {"deassert", "close", "exit"})
    /\ [][(pc = "sleep" \/ slept) =>
            /\ nChunkWr' = nChunkWr
            /\ delimTotal' = delimTotal
            /\ lastWr' = lastWr]_vars

(* C18 witness: an item was sent and delimited, then the delay ran and the *)
(* lines were dropped.                                                     *)
C18_Witness ==
    /\ slept
    /\ nDeassert = 1
    /\ delimTotal >= 1
    /\ lastWr.kind = "delim"
    /\ pc = "close"

(* main or the child can take a step.  In the three positions of the      *)
(* chunk loops only the loop's own actions are tried.                      *)
CanStep ==
    CASE pc = "read"  -> ENABLED (Fread \/ ReadDone)
      [] pc = "write" -> ENABLED (ChunkWrite \/ WriteDone)
      [] pc = "drain" -> ENABLED ChunkDrain
      [] OTHER        -> ENABLED Next

(* C19: every step of the run strictly lowers a natural-number measure of  *)
(* the work left, and the run is never blocked before process exit, so     *)
(* every run ends at exit; an item gets at most itr chunk writes, each for *)
(* a new chunk index, and at most one delimiter write, and at most         *)
(* imageAmount items are opened.                                           *)
C19_RunTerminates ==
    /\ [][Rank' < Rank]_vars
    /\ [](Rank >= 0)
    /\ [](pc # "exit" => CanStep)
    /\ [](/\ nChunkWr <= itr
          /\ pc = "write" => nChunkWr = k
          /\ pc = "drain" => nChunkWr = k + 1
          /\ nDelimWr <= 1
          /\ Len(opened) <= imageAmount
          /\ delimTotal <= Len(opened))

(* C19 witness: a run that sent at least one whole item has reached exit   *)
(* with nothing left to do.                                                *)
C19_Witness ==
    /\ pc = "exit"
    /\ Rank = 0
    /\ nChunkWr = itr
    /\ itr > 0
    /\ nDelimWr = 1
    /\ ~ENABLED Next

(* positions of main inside the body of the queue loop *)
ItemPcs == {"fopen", "read", "write", "drain", "check", "fclose",
            "endwrite", "enddrain", "timing"}

(* C20: inside the loop body 0 <= j < imageAmount; an even j has selected  *)
(* images[j/2], with j/2 an index of the 7-element array, and the declared *)
(* size of an image; an odd j has selected the xml file and its declared   *)
(* size; no pass reads outside the images array.                           *)
C20_QueueIndexInBounds ==
    /\ imagename # "out-of-bounds"
    /\ pc \in ItemPcs =>
          /\ 0 <= j /\ j < imageAmount
          /\ j % 2 = 0 =>
                /\ (j \div 2) + 1 \in 1..Len(images)
                /\ Len(images) = 7
                /\ imagename = images[(j \div 2) + 1]
                /\ sz = ImageSz
          /\ j % 2 = 1 =>
                /\ imagename = xmlfile
                /\ sz = XmlSz

(* C20 witness: the last image pass, j = 12, has selected images[6]. *)
C20_Witness ==
    /\ pc = "fopen"
    /\ j = imageAmount - 2
    /\ imagename = images[Len(images)]
    /\ sz = ImageSz

====
